---- MODULE Spec2Model ----
(***************************************************************************)
(* Genetic-algorithm timetable: the genome (ScheduleOptimizer), the timing *)
(* constraint validator, Population construction and the evolve() loop of  *)
(* EvolutionManager.                                                       *)
(*                                                                         *)
(* Times of day are minutes after midnight ("08:00" is 480).  A fitness is *)
(* the float 1 / (1 + conflicts) held as the integer FitUnit \div (1 +     *)
(* conflicts); FitUnit is a multiple of every 1 + conflicts that occurs,   *)
(* so the division is exact and sums and comparisons are those of the      *)
(* floats.                                                                 *)
(***************************************************************************)
EXTENDS Integers, Sequences, FiniteSets, TLC

\* ------------------------------------------------------------------ bounds
\* Largest population size that is constructed.
MaxSize == 2
\* Largest number of booking requests one factory call makes.
MaxClasses == 2
\* Largest schedule length the fitness function is applied to.
MaxFitLen == 2
\* Largest number of courses a department offers, and of weekly lectures of
\* a course, when create_schedule is called.
MaxCourses == 2
MaxLectures == 2

\* --------------------------------------------------------------- constants
\* constants.py: operating hours and break windows, minutes after midnight.
UNIVERSITY_START_TIME == 480
UNIVERSITY_END_TIME == 1080
LUNCH_BREAK_START == 780
LUNCH_BREAK_END == 840
BREAKONE_START_TIME == 600
BREAKONE_END_TIME == 615
BREAKTWO_START_TIME == 900
BREAKTWO_END_TIME == 915
TIME_SLOT_DURATION == 60
LAB_TIME_SLOT_DURATION == 120

\* 1.0 as a fitness: 2^4 * 3^2 * 5 * 7 * 11 * 13, a multiple of 1..16.
FitUnit == 16 * 9 * 5 * 7 * 11 * 13
\* ScheduleOptimizer.fitness before any evaluation: -1.0.
Sentinel == 0 - FitUnit

None == "None"

\* ------------------------------------------------------------- time slots
\* Four of the slots that populate_time_slots generates: the first lecture
\* and lab slot of Monday, the Monday 10:00 lecture slot, which overlaps
\* break one, and the first lecture slot of Tuesday.
TimeSlotTable ==
    [MT1  |-> [day |-> "Mon", start |-> 480, end |-> 540, duration |-> 60],
     MT2  |-> [day |-> "Mon", start |-> 480, end |-> 600, duration |-> 120],
     MT5  |-> [day |-> "Mon", start |-> 600, end |-> 660, duration |-> 60],
     MT18 |-> [day |-> "Tue", start |-> 480, end |-> 540, duration |-> 60]]

\* The slots registered on every genome built by the factory (the Tuesday
\* slot is used where calculate_fitness is applied alone).
time_slots == {"MT1", "MT2", "MT5"}

Rooms == {"R1"}
\* The pool registered with register_lab_room.
LabRooms == {"L1"}
Professors == {"P1", "P2"}

\* The one course of the input: lectures by P1, labs by P2.
Course == [assigned_professor |-> "P1", lab_professor |-> "P2"]

\* ------------------------------------------------- ClassTimingConstraint
\* A time of day as the text "HH:MM", held as <<HH, MM>>: what strftime
\* writes for a datetime (minutes after the midnight of its first day) and
\* what strptime reads back.
strftime(t) == <<(t \div 60) % 24, t % 60>>
strptime(hm) == 60 * hm[1] + hm[2]

\* Python's <, <= and >= on two "HH:MM" texts: character by character, which
\* for two digits of hours and two of minutes is hours first, then minutes.
str_lt(a, b) == a[1] < b[1] \/ (a[1] = b[1] /\ a[2] < b[2])
str_le(a, b) == a[1] < b[1] \/ (a[1] = b[1] /\ a[2] <= b[2])
str_ge(a, b) == str_le(b, a)

\* extract_time: each window as a pair of "HH:MM" texts.
extract_time(start_time, end_time) == <<strftime(start_time), strftime(end_time)>>

break_times ==
    << extract_time(BREAKONE_START_TIME, BREAKONE_END_TIME),
       extract_time(LUNCH_BREAK_START, LUNCH_BREAK_END),
       extract_time(BREAKTWO_START_TIME, BREAKTWO_END_TIME) >>

do_time_slots_intersect_closed(start1, end1, start2, end2) ==
    start1 <= end2 /\ start2 <= end1
do_time_slots_intersect(start1, end1, start2, end2) ==
    start1 < end2 /\ start2 < end1

is_timing_valid_hours_only(slot_start, slot_end) ==
    LET start == strptime(slot_start)
        end == strptime(slot_end)
    IN /\ UNIVERSITY_START_TIME <= start /\ start < UNIVERSITY_END_TIME
       /\ UNIVERSITY_START_TIME < end /\ end <= UNIVERSITY_END_TIME
\* is_timing_valid on the start and end texts of a time slot.
is_timing_valid_at(slot_start, slot_end) ==
    LET start == strptime(slot_start)
        end == strptime(slot_end)
    IN IF ~(UNIVERSITY_START_TIME <= start /\ start < UNIVERSITY_END_TIME
            /\ UNIVERSITY_START_TIME < end /\ end <= UNIVERSITY_END_TIME)
       THEN FALSE
       ELSE \A i \in 1..Len(break_times) :
                ~do_time_slots_intersect(start, end,
                                         strptime(break_times[i][1]),
                                         strptime(break_times[i][2]))

\* is_timing_valid for a slot of TimeSlotTable.
is_timing_valid(slot) ==
    is_timing_valid_at(strftime(TimeSlotTable[slot].start),
                       strftime(TimeSlotTable[slot].end))

\* A schedule here is a sequence of ScheduledClass values
\* [time_slot, room, professor].
RECURSIVE check_timing_conflicts(_)
check_timing_conflicts(raw) ==
    IF raw = <<>> THEN 0
    ELSE (IF is_timing_valid(Head(raw).time_slot) THEN 0 ELSE 1)
         + check_timing_conflicts(Tail(raw))

\* ScheduledClass.conflicts_with: same room or same professor, on the same
\* day, with overlapping intervals.
conflicts_with(c1, c2) ==
    LET s1 == TimeSlotTable[c1.time_slot]
        s2 == TimeSlotTable[c2.time_slot]
    IN /\ (c1.room = c2.room \/ c1.professor = c2.professor)
       /\ s1.day = s2.day
       /\ do_time_slots_intersect(s1.start, s1.end, s2.start, s2.end)

\* The inner loop of calculate_fitness: j from `from` to the end.
RECURSIVE InnerConflicts(_, _, _)
InnerConflicts(raw, i, j) ==
    IF j > Len(raw) THEN 0
    ELSE (IF conflicts_with(raw[i], raw[j]) THEN 1 ELSE 0)
         + InnerConflicts(raw, i, j + 1)

\* First index of the inner loop: range(i + 1, len).
InnerStartSelf(i) == i
InnerStart(i) == i + 1

RECURSIVE OuterConflicts(_, _)
OuterConflicts(raw, i) ==
    IF i > Len(raw) THEN 0
    ELSE InnerConflicts(raw, i, InnerStart(i)) + OuterConflicts(raw, i + 1)

calculate_fitness(raw) ==
    IF Len(raw) = 0 THEN 0
    ELSE LET conflicts == check_timing_conflicts(raw) + OuterConflicts(raw, 1)
         IN FitUnit \div (1 + conflicts)


\* ------------------------------------------------------ genome construction
\* A genome as the factory builds it: the schedule and the reservation marks
\* of its own Room and Professor objects.
NewGenome == [raw |-> <<>>, room_res |-> {}, prof_res |-> {}]

\* _choose_available_room: the rooms not reserved for the slot.
available_rooms(g, time_slot) ==
    {room \in Rooms : <<room, time_slot>> \notin g.room_res}

book_and_add_class(g, course, time_slot, room, batch) ==
    LET g1 == [g EXCEPT !.room_res = @ \cup {<<room, time_slot>>}]
        book(prof) ==
            IF <<prof, time_slot>> \in g1.prof_res
            THEN g1
            ELSE [g1 EXCEPT
                    !.prof_res = @ \cup {<<prof, time_slot>>},
                    !.raw = Append(@, [time_slot |-> time_slot,
                                       room |-> room,
                                       professor |-> prof])]
    IN IF batch # None /\ course.lab_professor # None
       THEN book(course.lab_professor)
       ELSE IF course.assigned_professor # None
            THEN book(course.assigned_professor)
            ELSE g1

\* One unit of work of the factory: a room that is free for the slot is
\* chosen, then the class is booked; with no free room the unit is skipped.
\* A lab-length slot is booked as a lab of batch 1, any other as a lecture.
BookUnit(g, time_slot, room) ==
    IF room \notin available_rooms(g, time_slot)
    THEN g
    ELSE book_and_add_class(
             g, Course, time_slot, room,
             IF TimeSlotTable[time_slot].duration = LAB_TIME_SLOT_DURATION
             THEN "1" ELSE None)

\* The bookings of a plan, in order.
Build(g, plan) ==
    LET after[k \in 0..Len(plan)] ==
            IF k = 0 THEN g
            ELSE BookUnit(after[k - 1], plan[k][1], plan[k][2])
    IN after[Len(plan)]

\* What the factory is asked to book: up to MaxClasses (slot, room) requests.
Plans == UNION {[1..n -> time_slots \X Rooms] : n \in 0..MaxClasses}

\* The schedules a factory call can return.
FactorySchedules == {Build(NewGenome, plan).raw : plan \in Plans}

\* ------------------------------------------------------------- Population
max_retries == 100

\* The timing_constraint argument: an instance of ClassTimingConstraint, or
\* the class itself (as main and evolve's call of crossover pass it).
TcArgs == {"instance", "class"}

\* Calling is_timing_valid on the class binds the slot to self and leaves
\* time_slot missing: TypeError.
TimingCallRaises(tc) == tc = "class"

is_valid_schedule_always(raw) == TRUE
\* Population.is_valid_schedule: False at the first class whose slot is not
\* timing-valid, True when the loop runs out.
is_valid_schedule(raw) ==
    \A i \in 1..Len(raw) : is_timing_valid(raw[i].time_slot)

\* The results of successive factory invocations: `before` up to invocation
\* switchAt - 1, `after` from invocation switchAt on.
Arrivals == {1, 2, max_retries, max_retries + 1, max_retries + 2}
InvalidSample == Build(NewGenome, << <<"MT5", "R1">> >>).raw
Streams == [switchAt : Arrivals, before : {InvalidSample}, after : FactorySchedules]
StreamAt(s, k) == IF k < s.switchAt THEN s.before ELSE s.after

\* The loop guard of _create_independent_schedule.
MayRetryInclusive(retries) == retries <= max_retries
MayRetry(retries) == retries < max_retries

\* The while loop of lines 48-50 holds the result of invocation k with
\* retries = k - 1; it goes on while that result is not valid and a retry is
\* left, so it is left at the first k where that fails.
LoopGoesOn(s, k) == ~is_valid_schedule(StreamAt(s, k)) /\ MayRetry(k - 1)
LoopLeftAt(s) ==
    CHOOSE k \in 1..(max_retries + 2) :
        /\ ~LoopGoesOn(s, k)
        /\ \A j \in 1..(k - 1) : LoopGoesOn(s, j)

\* With the class as timing_constraint, is_valid_schedule raises at the
\* first class it looks at; an empty schedule is valid without a call.
_create_independent_schedule(s, tc) ==
    IF StreamAt(s, 1) # <<>> /\ TimingCallRaises(tc)
    THEN [status |-> "TypeError", calls |-> 1, schedule |-> StreamAt(s, 1)]
    ELSE LET made == LoopLeftAt(s)
             retries == made - 1
         IN [status |-> IF retries = max_retries THEN "ValueError" ELSE "ok",
             calls |-> made,
             schedule |-> StreamAt(s, made)]

\* Every outcome, computed once.
CreateTable ==
    {[s |-> s, tc |-> tc, r |-> _create_independent_schedule(s, tc)] :
        s \in Streams, tc \in TcArgs}
CreateOutcome(s, tc) == (CHOOSE e \in CreateTable : e.s = s /\ e.tc = tc).r


\* ------------------------------------------------------------------- state
VARIABLES
    pc,               \* where the program is
    size,             \* the size argument of the initial Population
    tcArg,            \* the timing_constraint argument of the initial Population
    pop,              \* population.schedules: genome objects, in order
    genomes,          \* the ScheduleOptimizer objects
    cls,              \* the ScheduledClass objects
    built,            \* genomes built so far by the Population under construction
    next_generation,  \* evolve's list
    parents,          \* <<parent_a, parent_b>>
    offspring,        \* the genome crossover returned
    err,              \* the exception that ended the program, or None
    calls,            \* factory invocations of the last _create_independent_schedule
    stream,           \* the factory results it was given
    hist,             \* what held when evolve was last called
    fit_in,           \* a schedule given to calculate_fitness
    fit_out,          \* what calculate_fitness returned for it
    timing_in,        \* the arguments of a call of the timing validator
    timing_out,       \* what the call returned
    day,              \* populate_time_slots: index of the day of the outer loop
    current_time,     \* populate_time_slots: current_time
    time_slot_id,     \* populate_time_slots: time_slot_id
    registered,       \* the TimeSlot objects registered on the genome
    position,         \* crossover: index of the zipped pair being handled
    selected_class,   \* crossover: selected_class
    redraws,          \* crossover: parity of the number of re-draws at this pair
    request,          \* create_schedule: what is registered on the genome
    creating,         \* create_schedule: the units left and the outcome
    optimizer,        \* a genome being filled: raw_schedule and reservation marks
    batches,          \* the batch label of each class of its raw_schedule
    available,        \* the availability window of each professor
    pool,             \* lecture_slots or lab_slots of the running call, units done
    conflict          \* the last call of is_conflicting and its result

timingVars == <<timing_in, timing_out, day, current_time, time_slot_id, registered>>
redrawVars == <<position, selected_class, redraws>>
createVars == <<request, creating>>
bookVars == <<optimizer, batches, available, pool, conflict>>
auxVars == <<timingVars, redrawVars, createVars, bookVars>>

vars == <<pc, size, tcArg, pop, genomes, cls, built, next_generation, parents,
          offspring, err, calls, stream, hist, fit_in, fit_out, auxVars>>

GenomeIds == 1..(2 * MaxSize)
\* A ScheduledClass object is named by the genome whose factory call made it
\* and its position there.
ClassRefs == GenomeIds \X (1..MaxClasses)
NoGenome == [raw |-> <<>>, fitness |-> 0, rooms |-> 0]
NoClass == [time_slot |-> None, room |-> None, professor |-> None]
NoStream == [switchAt |-> 0, before |-> <<>>, after |-> <<>>]
NoHist == [phase |-> "none", best |-> 0, elite |-> 0, eliteRaw |-> <<>>, size |-> 0]

Range(f) == {f[i] : i \in DOMAIN f}
Min2(a, b) == IF a < b THEN a ELSE b

\* The schedule of genome object id, class objects dereferenced.
RawIn(gs, cs, id) == [k \in 1..Len(gs[id].raw) |-> cs[gs[id].raw[k]]]
RawOf(id) == RawIn(genomes, cls, id)

\* The Room objects are those of the genome named by `rooms`; a fresh genome
\* has its own, and its fitness is the sentinel.
FreshGenome(id, schedule) ==
    [raw |-> [k \in 1..Len(schedule) |-> <<id, k>>], fitness |-> Sentinel, rooms |-> id]

\* The heaps after a factory call made genome object id with the schedule.
AllocGenomes(gs, id, schedule) == [gs EXCEPT ![id] = FreshGenome(id, schedule)]
AllocClasses(cs, id, schedule) ==
    [c \in ClassRefs |->
        IF c[1] = id
        THEN (IF c[2] <= Len(schedule) THEN schedule[c[2]] ELSE NoClass)
        ELSE cs[c]]

\* Objects no list refers to any more are dropped.
KeepGenomes(gs, live) == [id \in GenomeIds |-> IF id \in live THEN gs[id] ELSE NoGenome]
KeepClasses(gs, cs, live) ==
    [c \in ClassRefs |->
        IF \E id \in live : c \in Range(gs[id].raw) THEN cs[c] ELSE NoClass]

Used == Range(pop) \cup Range(next_generation)

\* The name of the next genome object: the first one no object has.
IsFree(id) ==
    /\ genomes[id] = NoGenome
    /\ \A c \in ClassRefs : c[1] = id => cls[c] = NoClass
FreshId == CHOOSE id \in GenomeIds :
               IsFree(id) /\ \A other \in GenomeIds : IsFree(other) => id <= other

NoRequest == [courses |-> <<>>, time_slots |-> {}]
NoCreating == [status |-> "none", course |-> 0, divisions |-> <<>>,
               phase |-> "none", raw_schedule |-> <<>>]
NoSelection == <<0, 0>>
NoCall == [op |-> "none", result |-> FALSE, swapped |-> FALSE]
NoWindows == [p \in Professors |-> << <<0, 0>>, <<0, 0>> >>]
NoPool == [kind |-> "none", slots |-> {}, done |-> 0, units |-> 0]
NoConflictCall == [time_slot |-> None, room |-> None, professor |-> None,
                   raw_schedule |-> <<>>, result |-> FALSE]

\* Nothing of the timing validator, of a separate crossover or of
\* create_schedule is under way.
TimingIdle ==
    /\ timing_in = <<>>
    /\ timing_out = NoCall
    /\ day = 0
    /\ current_time = 0
    /\ time_slot_id = 0
    /\ registered = {}
RedrawIdle ==
    /\ position = 0
    /\ selected_class = NoSelection
    /\ redraws = 0
CreateIdle ==
    /\ request = NoRequest
    /\ creating = NoCreating
BookIdle ==
    /\ optimizer = NewGenome
    /\ batches = <<>>
    /\ available = NoWindows
    /\ pool = NoPool
    /\ conflict = NoConflictCall
AuxIdle == TimingIdle /\ RedrawIdle /\ CreateIdle /\ BookIdle

\* --------------------------------------------------- Population.__init__
InitFlow ==
    /\ pc = "new"
    /\ size \in 1..MaxSize
    /\ tcArg \in TcArgs
    /\ pop = <<>>
    /\ genomes = [id \in GenomeIds |-> NoGenome]
    /\ cls = [c \in ClassRefs |-> NoClass]
    /\ built = 0
    /\ next_generation = <<>>
    /\ parents = <<0, 0>>
    /\ offspring = 0
    /\ err = None
    /\ calls = 0
    /\ stream = NoStream
    /\ hist = NoHist
    /\ fit_in = <<>>
    /\ fit_out = 0
    /\ AuxIdle

\* One iteration of the list comprehension of __init__: a genome is created,
\* or the exception of _create_independent_schedule ends the program.
CreateSchedule ==
    /\ pc = "new"
    /\ built < size
    /\ \E s \in Streams :
         LET r == CreateOutcome(s, tcArg)
             id == built + 1
         IN /\ calls' = r.calls
            /\ stream' = s
            /\ IF r.status = "ok"
               THEN /\ genomes' = AllocGenomes(genomes, id, r.schedule)
                    /\ cls' = AllocClasses(cls, id, r.schedule)
                    /\ pop' = Append(pop, id)
                    /\ built' = built + 1
                    /\ pc' = IF built + 1 = size THEN "ready" ELSE "new"
                    /\ err' = None
               ELSE /\ pc' = "raised"
                    /\ err' = r.status
                    /\ UNCHANGED <<genomes, cls, pop, built>>
    /\ UNCHANGED auxVars /\ UNCHANGED <<size, tcArg, next_generation, parents, offspring, hist,
                   fit_in, fit_out>>


\* -------------------------------------------- Population: best and parents
Fitness(id) == genomes[id].fitness

\* max(self.schedules, key=fitness): the first genome of maximal cached fitness.
get_best_schedule(p) ==
    LET i == CHOOSE i \in 1..Len(p) :
                 /\ \A j \in 1..Len(p) : Fitness(p[j]) <= Fitness(p[i])
                 /\ \A j \in 1..(i - 1) : Fitness(p[j]) < Fitness(p[i])
    IN p[i]

RECURSIVE SumFitness(_, _)
SumFitness(p, i) ==
    IF i > Len(p) THEN 0 ELSE Fitness(p[i]) + SumFitness(p, i + 1)

\* What _roulette_selection adds for a genome: the cached fitness unless it
\* is 0, then a fresh calculate_fitness().
Weight(id) == IF Fitness(id) # 0 THEN Fitness(id) ELSE calculate_fitness(RawOf(id))

RECURSIVE Cumulative(_, _)
Cumulative(p, i) == IF i = 0 THEN 0 ELSE Cumulative(p, i - 1) + Weight(p[i])

RECURSIVE WalkInclusive(_, _, _)
WalkInclusive(p, pick, i) ==
    IF i > Len(p) THEN p[Len(p)]
    ELSE IF Cumulative(p, i) >= pick THEN p[i] ELSE WalkInclusive(p, pick, i + 1)
RECURSIVE Walk(_, _, _)
Walk(p, pick, i) ==
    IF i > Len(p) THEN p[Len(p)]
    ELSE IF Cumulative(p, i) > pick THEN p[i] ELSE Walk(p, pick, i + 1)

_roulette_selection(p, pick) == Walk(p, pick, 1)

\* pick = random() * total_fitness with random() in [0, 1).  The walk only
\* compares pick with the cumulative sums, so a pick strictly between two of
\* them behaves as the lower one: these picks stand for all of them.
Picks(p, total) ==
    LET marks == {Cumulative(p, i) : i \in 0..Len(p)} \cup {0, total}
    IN IF total > 0
       THEN {x \in marks : 0 <= x /\ x < total}
       ELSE {x \in marks : total <= x /\ x <= 0}

\* Best fitness of a population, every genome measured by calculate_fitness.
BestCalc(p) ==
    LET f(i) == calculate_fitness(RawOf(p[i]))
    IN f(CHOOSE i \in 1..Len(p) : \A j \in 1..Len(p) : f(j) <= f(i))

\* ------------------------------------------------------ EvolutionManager
\* mutation_rate and crossover_rate lie strictly between 0 and 1, so each
\* coin (random() < mutation_rate, random() > crossover_rate) can fall
\* either way.
\* The object evolve passes to crossover as timing_constraint: the class.
EvolveCrossoverTc == "class"

\* mutate looks up is_valid_schedule on the ScheduleOptimizer, which has no
\* such attribute: AttributeError.
ScheduleOptimizerHasIsValidSchedule == FALSE

\* The list evolve starts from.
InitialNextGenerationLast(p) == <<p[Len(p)]>>
InitialNextGeneration(p) == <<get_best_schedule(p)>>

EvolveBegin ==
    /\ pc = "ready"
    /\ next_generation' = InitialNextGeneration(pop)
    /\ hist' = [phase |-> "called",
                best |-> BestCalc(pop),
                elite |-> get_best_schedule(pop),
                eliteRaw |-> RawOf(get_best_schedule(pop)),
                size |-> Len(pop)]
    /\ pc' = "loop"
    /\ calls' = 0
    /\ stream' = NoStream
    /\ UNCHANGED auxVars /\ UNCHANGED <<size, tcArg, pop, genomes, cls, built, parents, offspring,
                   err, fit_in, fit_out>>

\* select_parents at the head of an iteration of the while loop.
SelectParents ==
    /\ pc = "loop"
    /\ Len(next_generation) < Len(pop)
    /\ LET total == SumFitness(pop, 1)
       IN IF total = 0
          THEN \E i, j \in 1..Len(pop) :
                  /\ i # j
                  /\ parents' = <<pop[i], pop[j]>>
          ELSE \E pick1, pick2 \in Picks(pop, total) :
                  parents' = <<_roulette_selection(pop, pick1),
                               _roulette_selection(pop, pick2)>>
    /\ pc' = "crossover"
    /\ UNCHANGED auxVars /\ UNCHANGED <<size, tcArg, pop, genomes, cls, built, next_generation,
                   offspring, err, calls, stream, hist, fit_in, fit_out>>

\* crossover, random() > crossover_rate: one of the parents is returned.
CrossoverReturnsParent ==
    /\ pc = "crossover"
    /\ \E k \in 1..2 : offspring' = parents[k]
    /\ pc' = "mutate"
    /\ UNCHANGED auxVars /\ UNCHANGED <<size, tcArg, pop, genomes, cls, built, next_generation,
                   parents, err, calls, stream, hist, fit_in, fit_out>>

\* The zip loop of crossover for the final draw sel at every position:
\* TypeError when is_timing_valid cannot be called, "spin" when the re-draw
\* loop cannot end (both classes timing-invalid), else the chosen classes.
CrossoverLoop(a, b, tc, sel) ==
    LET n == Min2(Len(genomes[a].raw), Len(genomes[b].raw))
        at(i, k) == IF k = 1 THEN genomes[a].raw[i] ELSE genomes[b].raw[i]
    IN IF n >= 1 /\ TimingCallRaises(tc)
       THEN [status |-> "TypeError", raw |-> <<>>]
       ELSE IF \E i \in 1..n : \A k \in 1..2 : ~is_timing_valid(cls[at(i, k)].time_slot)
            THEN [status |-> "spin", raw |-> <<>>]
            ELSE [status |-> "ok", raw |-> [i \in 1..n |-> at(i, sel[i])]]

\* The draws the re-draw loop can end with: a timing-valid class everywhere.
FinalDraws(a, b) ==
    LET n == Min2(Len(genomes[a].raw), Len(genomes[b].raw))
    IN {sel \in [1..n -> 1..2] :
           \A i \in 1..n :
               is_timing_valid(
                   cls[IF sel[i] = 1 THEN genomes[a].raw[i]
                       ELSE genomes[b].raw[i]].time_slot)
               \/ \A k \in 1..2 :
                      ~is_timing_valid(
                          cls[IF k = 1 THEN genomes[a].raw[i]
                              ELSE genomes[b].raw[i]].time_slot)}

\* The offspring object of an actual crossover: the schedule drawn, the
\* rooms of parent_a, the fitness computed at once.
CrossoverOffspring(a, raw) ==
    [raw |-> raw,
     fitness |-> calculate_fitness([k \in 1..Len(raw) |-> cls[raw[k]]]),
     rooms |-> genomes[a].rooms]

\* crossover, random() <= crossover_rate, as evolve calls it.  An exception
\* is caught by evolve and the attempt is dropped.
Crossover ==
    /\ pc = "crossover"
    /\ \E sel \in FinalDraws(parents[1], parents[2]) :
         LET r == CrossoverLoop(parents[1], parents[2], EvolveCrossoverTc, sel)
         IN IF r.status = "ok"
            THEN /\ offspring' = FreshId
                 /\ genomes' = [genomes EXCEPT
                                  ![FreshId] = CrossoverOffspring(parents[1], r.raw)]
                 /\ pc' = "mutate"
            ELSE /\ pc' = IF r.status = "spin" THEN "spin" ELSE "loop"
                 /\ UNCHANGED <<offspring, genomes>>
    /\ UNCHANGED auxVars /\ UNCHANGED <<size, tcArg, pop, cls, built, next_generation, parents,
                   err, calls, stream, hist, fit_in, fit_out>>


\* What mutate does to genome o for the draws (class k, slot, coin):
\* "raise" (the exception is caught by evolve), "same" (returns, nothing
\* changed) or "assign" (line 155).
MutateOutcome(o, k, slot, coin) ==
    IF ~coin THEN "same"
    ELSE IF ~is_timing_valid(slot) THEN "same"
    ELSE IF ~ScheduleOptimizerHasIsValidSchedule THEN "raise"
    ELSE IF ~is_valid_schedule(RawOf(o)) THEN "same"
    ELSE "assign"

\* mutate(offspring) followed by next_generation.append(offspring); an
\* exception (choice of an empty schedule, or the missing is_valid_schedule
\* attribute) drops the offspring instead.
Mutate ==
    /\ pc = "mutate"
    /\ LET o == offspring
           drop == /\ next_generation' = next_generation
                   /\ genomes' = KeepGenomes(genomes, Used)
                   /\ cls' = KeepClasses(genomes, cls, Used)
       IN IF Len(genomes[o].raw) = 0
          THEN drop
          ELSE \E k \in 1..Len(genomes[o].raw), slot \in time_slots, coin \in BOOLEAN :
                  LET out == MutateOutcome(o, k, slot, coin)
                  IN IF out = "raise"
                     THEN drop
                     ELSE /\ next_generation' = Append(next_generation, o)
                          /\ genomes' = genomes
                          /\ cls' = IF out = "assign"
                                    THEN [cls EXCEPT ![genomes[o].raw[k]].time_slot = slot]
                                    ELSE cls
    /\ pc' = "loop"
    /\ offspring' = 0
    /\ parents' = <<0, 0>>
    /\ UNCHANGED auxVars /\ UNCHANGED <<size, tcArg, pop, built, err, calls, stream, hist, fit_in, fit_out>>

\* The while loop ends; Population(size=len(next_generation), ...) begins.
LoopExit ==
    /\ pc = "loop"
    /\ Len(next_generation) >= Len(pop)
    /\ pc' = "rebuild"
    /\ built' = 0
    /\ UNCHANGED auxVars /\ UNCHANGED <<size, tcArg, pop, genomes, cls, next_generation, parents,
                   offspring, err, calls, stream, hist, fit_in, fit_out>>

\* One genome of the Population that evolve constructs with a
\* ClassTimingConstraint instance; its schedules are replaced on return.
RebuildCreate ==
    /\ pc = "rebuild"
    /\ built < Len(next_generation)
    /\ \E s \in Streams :
         LET r == CreateOutcome(s, "instance")
         IN /\ calls' = r.calls
            /\ stream' = s
            /\ IF r.status = "ok"
               THEN /\ built' = built + 1
                    /\ UNCHANGED <<pc, err>>
               ELSE /\ pc' = "raised"
                    /\ err' = r.status
                    /\ built' = built
    /\ UNCHANGED auxVars /\ UNCHANGED <<size, tcArg, pop, genomes, cls, next_generation, parents,
                   offspring, hist, fit_in, fit_out>>

\* Population.evaluate_fitness over the schedules p.
evaluate_fitness_none(gs, cs, p) == gs
evaluate_fitness(gs, cs, p) ==
    [id \in GenomeIds |->
        IF id \in Range(p)
        THEN [gs[id] EXCEPT !.fitness = calculate_fitness(RawIn(gs, cs, id))]
        ELSE gs[id]]

\* new_population.schedules = next_generation; evaluate_fitness(); return.
EvolveReturn ==
    /\ pc = "rebuild"
    /\ built = Len(next_generation)
    /\ pop' = next_generation
    /\ genomes' = evaluate_fitness(KeepGenomes(genomes, Range(next_generation)),
                                   cls, next_generation)
    /\ cls' = KeepClasses(genomes, cls, Range(next_generation))
    /\ next_generation' = <<>>
    /\ hist' = [hist EXCEPT !.phase = "returned"]
    /\ pc' = "ready"
    /\ built' = Len(next_generation)
    /\ calls' = 0
    /\ stream' = NoStream
    /\ UNCHANGED auxVars /\ UNCHANGED <<size, tcArg, parents, offspring, err, fit_in, fit_out>>

Next ==
    \/ CreateSchedule
    \/ EvolveBegin
    \/ SelectParents
    \/ CrossoverReturnsParent
    \/ Crossover
    \/ Mutate
    \/ LoopExit
    \/ RebuildCreate
    \/ EvolveReturn

Init == InitFlow

Spec == Init /\ [][Next]_vars


\* -------------------------------------------- fairness of the random draws
\* Every outcome of a random draw that is possible again and again happens
\* again and again: each pair of parents, each parent that crossover can
\* return, the other branch of crossover's coin, a mutate that returns
\* normally, a factory result that Population accepts.
SelectsPair(a, b) == SelectParents /\ parents' = <<a, b>>
ReturnsParent(id) == CrossoverReturnsParent /\ offspring' = id
MutateAppends == Mutate /\ Len(next_generation') > Len(next_generation)
RebuildCreates == RebuildCreate /\ pc' = "rebuild"

Fairness ==
    /\ WF_vars(Next)
    /\ \A a, b \in 1..MaxSize : SF_vars(SelectsPair(a, b))
    /\ \A id \in 1..MaxSize : SF_vars(ReturnsParent(id))
    /\ SF_vars(Crossover)
    /\ SF_vars(MutateAppends)
    /\ SF_vars(RebuildCreates)

FairSpec == Init /\ [][Next]_vars /\ Fairness

\* ------------------------------------------------ calculate_fitness alone
FitSlots == DOMAIN TimeSlotTable
FitRooms == {"R1", "R2"}
FitClasses == [time_slot : FitSlots, room : FitRooms, professor : Professors]
FitInputs == UNION {[1..n -> FitClasses] : n \in 0..MaxFitLen}

Idle ==
    /\ size = 1
    /\ tcArg = "instance"
    /\ pop = <<>>
    /\ genomes = [id \in GenomeIds |-> NoGenome]
    /\ cls = [c \in ClassRefs |-> NoClass]
    /\ built = 0
    /\ next_generation = <<>>
    /\ parents = <<0, 0>>
    /\ offspring = 0
    /\ err = None
    /\ calls = 0
    /\ stream = NoStream
    /\ hist = NoHist

InitFit ==
    /\ pc = "fit"
    /\ fit_in \in FitInputs
    /\ fit_out = Sentinel
    /\ Idle
    /\ AuxIdle

\* schedule.fitness = schedule.calculate_fitness() on the given schedule.
ApplyFitness ==
    /\ pc = "fit"
    /\ fit_out' = calculate_fitness(fit_in)
    /\ pc' = "fit_done"
    /\ UNCHANGED auxVars /\ UNCHANGED <<size, tcArg, pop, genomes, cls, built, next_generation,
                   parents, offspring, err, calls, stream, hist, fit_in>>

NextFit == ApplyFitness

SpecFit == InitFit /\ [][NextFit]_vars

\* ------------------------------------- crossover and mutate called directly
\* A caller builds two parents with the factory, calls crossover with a
\* ClassTimingConstraint instance, as the signature asks for, then mutate on
\* what crossover returned.
InitOps ==
    /\ pc = "ops"
    /\ fit_in = <<>>
    /\ fit_out = 0
    /\ Idle
    /\ AuxIdle

DirectParents ==
    /\ pc = "ops"
    /\ \E a, b \in FactorySchedules :
         /\ genomes' = AllocGenomes(AllocGenomes(genomes, 1, a), 2, b)
         /\ cls' = AllocClasses(AllocClasses(cls, 1, a), 2, b)
    /\ parents' = <<1, 2>>
    /\ pc' = "ops_crossover"
    /\ UNCHANGED auxVars /\ UNCHANGED <<size, tcArg, pop, built, next_generation, offspring, err,
                   calls, stream, hist, fit_in, fit_out>>

DirectCrossoverReturnsParent ==
    /\ pc = "ops_crossover"
    /\ \E k \in 1..2 : offspring' = parents[k]
    /\ pc' = "ops_mutate"
    /\ UNCHANGED auxVars /\ UNCHANGED <<size, tcArg, pop, genomes, cls, built, next_generation,
                   parents, err, calls, stream, hist, fit_in, fit_out>>

DirectCrossover ==
    /\ pc = "ops_crossover"
    /\ \E sel \in FinalDraws(parents[1], parents[2]) :
         LET r == CrossoverLoop(parents[1], parents[2], "instance", sel)
         IN IF r.status = "ok"
            THEN /\ offspring' = FreshId
                 /\ genomes' = [genomes EXCEPT
                                  ![FreshId] = CrossoverOffspring(parents[1], r.raw)]
                 /\ pc' = "ops_mutate"
            ELSE /\ pc' = "spin"
                 /\ UNCHANGED <<offspring, genomes>>
    /\ UNCHANGED auxVars /\ UNCHANGED <<size, tcArg, pop, cls, built, next_generation, parents,
                   err, calls, stream, hist, fit_in, fit_out>>

DirectMutate ==
    /\ pc = "ops_mutate"
    /\ LET o == offspring
       IN IF Len(genomes[o].raw) = 0
          THEN /\ err' = "IndexError"
               /\ cls' = cls
          ELSE \E k \in 1..Len(genomes[o].raw), slot \in time_slots, coin \in BOOLEAN :
                  LET out == MutateOutcome(o, k, slot, coin)
                  IN /\ err' = IF out = "raise" THEN "AttributeError" ELSE None
                     /\ cls' = IF out = "assign"
                               THEN [cls EXCEPT ![genomes[o].raw[k]].time_slot = slot]
                               ELSE cls
    /\ pc' = "ops_done"
    /\ UNCHANGED auxVars /\ UNCHANGED <<size, tcArg, pop, genomes, built, next_generation, parents,
                   offspring, calls, stream, hist, fit_in, fit_out>>

NextOps ==
    \/ DirectParents
    \/ DirectCrossoverReturnsParent
    \/ DirectCrossover
    \/ DirectMutate

SpecOps == InitOps /\ [][NextOps]_vars

\* ------------------------------------------- crossover, one step at a time
\* The zip loop of crossover with a ClassTimingConstraint instance, every
\* choice() a step of its own.
PairCount == Min2(Len(genomes[parents[1]].raw), Len(genomes[parents[2]].raw))
class_a == genomes[parents[1]].raw[position]
class_b == genomes[parents[2]].raw[position]

\* The condition of the while loop of line 194.
RedrawNeededNever(c) == FALSE
RedrawNeeded(c) == ~is_timing_valid(cls[c].time_slot)

\* random() <= crossover_rate: offspring = schedule_factory() and
\* offspring.raw_schedule = [].
CrossoverEnter ==
    /\ pc = "ops_crossover"
    /\ offspring' = FreshId
    /\ genomes' = [genomes EXCEPT ![FreshId] = FreshGenome(FreshId, <<>>)]
    /\ position' = 1
    /\ pc' = "x_pair"
    /\ UNCHANGED <<selected_class, redraws, timingVars, createVars, bookVars>>
    /\ UNCHANGED <<size, tcArg, pop, cls, built, next_generation, parents,
                   err, calls, stream, hist, fit_in, fit_out>>

\* selected_class = choice([class_a, class_b]) for the next zipped pair.
CrossoverChoose ==
    /\ pc = "x_pair"
    /\ position <= PairCount
    /\ selected_class' \in {class_a, class_b}
    /\ redraws' = 0
    /\ pc' = "x_while"
    /\ UNCHANGED <<position, timingVars, createVars, bookVars>>
    /\ UNCHANGED <<size, tcArg, pop, genomes, cls, built, next_generation,
                   parents, offspring, err, calls, stream, hist, fit_in, fit_out>>

\* The body of the while loop: the slot is not timing-valid, choose again.
CrossoverRedraw ==
    /\ pc = "x_while"
    /\ RedrawNeeded(selected_class)
    /\ selected_class' \in {class_a, class_b}
    /\ redraws' = (redraws + 1) % 2
    /\ UNCHANGED <<pc, position, timingVars, createVars, bookVars>>
    /\ UNCHANGED <<size, tcArg, pop, genomes, cls, built, next_generation,
                   parents, offspring, err, calls, stream, hist, fit_in, fit_out>>

\* The while loop is left: offspring.raw_schedule.append(selected_class).
CrossoverAppend ==
    /\ pc = "x_while"
    /\ ~RedrawNeeded(selected_class)
    /\ genomes' = [genomes EXCEPT ![offspring].raw = Append(@, selected_class)]
    /\ position' = position + 1
    /\ selected_class' = NoSelection
    /\ redraws' = 0
    /\ pc' = "x_pair"
    /\ UNCHANGED <<timingVars, createVars, bookVars>>
    /\ UNCHANGED <<size, tcArg, pop, cls, built, next_generation, parents,
                   offspring, err, calls, stream, hist, fit_in, fit_out>>

\* zip is exhausted: the attributes of parent_a are copied, the fitness is
\* computed, the offspring is returned.
CrossoverFinish ==
    /\ pc = "x_pair"
    /\ position > PairCount
    /\ genomes' = [genomes EXCEPT
                     ![offspring] = CrossoverOffspring(parents[1], @.raw)]
    /\ pc' = "x_done"
    /\ UNCHANGED auxVars
    /\ UNCHANGED <<size, tcArg, pop, cls, built, next_generation, parents,
                   offspring, err, calls, stream, hist, fit_in, fit_out>>

NextRedraw ==
    \/ DirectParents
    \/ CrossoverEnter
    \/ CrossoverChoose
    \/ CrossoverRedraw
    \/ CrossoverAppend
    \/ CrossoverFinish

\* choice() is fair: a class that can be drawn again and again is drawn.
RedrawsClass(k) ==
    CrossoverRedraw /\ selected_class' = genomes[parents[k]].raw[position]

FairRedraw ==
    /\ InitOps
    /\ [][NextRedraw]_vars
    /\ WF_vars(NextRedraw)
    /\ \A k \in 1..2 : SF_vars(RedrawsClass(k))

\* ------------------------------------ populate_time_slots and the validator
\* constants.py: the weekday list.
DAYS_OF_WEEK == <<"Mon", "Tue", "Wed", "Thu", "Fri">>

\* TimeSlot(slot_id=f"MT{n}", ...): the id is held as the number n.
TimeSlot(n, d, from, length) ==
    [slot_id |-> n, day |-> d, start |-> strftime(from),
     end |-> strftime(from + length), duration |-> length]

\* The condition of the while loop.
SlotFitsAtClosing == current_time <= UNIVERSITY_END_TIME
SlotFits == current_time + TIME_SLOT_DURATION <= UNIVERSITY_END_TIME

\* The test that makes the loop pass over a position.
InBreak(t) == LUNCH_BREAK_START <= t /\ t < LUNCH_BREAK_END

InitTiming ==
    /\ pc = "populate"
    /\ fit_in = <<>>
    /\ fit_out = 0
    /\ Idle
    /\ AuxIdle

\* The for loop takes the next day: current_time = UNIVERSITY_START_TIME.
PopulateDay ==
    /\ pc = "populate" \/ (pc = "populate_slots" /\ ~SlotFits)
    /\ day < Len(DAYS_OF_WEEK)
    /\ day' = day + 1
    /\ current_time' = UNIVERSITY_START_TIME
    /\ time_slot_id' = IF pc = "populate" THEN 1 ELSE time_slot_id
    /\ pc' = "populate_slots"
    /\ UNCHANGED <<timing_in, timing_out, registered, redrawVars, createVars, bookVars>>
    /\ UNCHANGED <<size, tcArg, pop, genomes, cls, built, next_generation,
                   parents, offspring, err, calls, stream, hist, fit_in, fit_out>>

\* One iteration of the while loop.
PopulateStep ==
    /\ pc = "populate_slots"
    /\ SlotFits
    /\ current_time' = current_time + TIME_SLOT_DURATION
    /\ IF InBreak(current_time)
       THEN UNCHANGED <<time_slot_id, registered>>
       ELSE LET lecture == TimeSlot(time_slot_id, DAYS_OF_WEEK[day],
                                    current_time, TIME_SLOT_DURATION)
                lab == TimeSlot(time_slot_id + 1, DAYS_OF_WEEK[day],
                                current_time, LAB_TIME_SLOT_DURATION)
            IN IF current_time + LAB_TIME_SLOT_DURATION <= UNIVERSITY_END_TIME
               THEN /\ registered' = registered \cup {lecture, lab}
                    /\ time_slot_id' = time_slot_id + 2
               ELSE /\ registered' = registered \cup {lecture}
                    /\ time_slot_id' = time_slot_id + 1
    /\ UNCHANGED <<pc, timing_in, timing_out, day, redrawVars, createVars, bookVars>>
    /\ UNCHANGED <<size, tcArg, pop, genomes, cls, built, next_generation,
                   parents, offspring, err, calls, stream, hist, fit_in, fit_out>>

\* The last day is done: populate_time_slots returns.
PopulateReturn ==
    /\ pc = "populate_slots"
    /\ ~SlotFits
    /\ day = Len(DAYS_OF_WEEK)
    /\ pc' = "populated"
    /\ UNCHANGED auxVars
    /\ UNCHANGED <<size, tcArg, pop, genomes, cls, built, next_generation,
                   parents, offspring, err, calls, stream, hist, fit_in, fit_out>>

\* The times of day the validator is called with: around the opening and
\* closing time and around every break window.
Instants ==
    {UNIVERSITY_START_TIME - 30, UNIVERSITY_START_TIME,
     BREAKONE_START_TIME - 60, BREAKONE_START_TIME, BREAKONE_START_TIME + 5,
     BREAKONE_END_TIME, LUNCH_BREAK_START, LUNCH_BREAK_START + 30,
     LUNCH_BREAK_END, BREAKTWO_START_TIME, BREAKTWO_END_TIME,
     UNIVERSITY_END_TIME - 60, UNIVERSITY_END_TIME, UNIVERSITY_END_TIME + 30}

\* is_timing_valid(time_slot) for a slot with the given start and end.
IsTimingValidCall ==
    /\ pc = "populated"
    /\ \E a, b \in Instants :
         /\ timing_in' = <<strftime(a), strftime(b)>>
         /\ timing_out' = [op |-> "is_timing_valid",
                           result |-> is_timing_valid_at(strftime(a), strftime(b)),
                           swapped |-> FALSE]
    /\ UNCHANGED <<pc, day, current_time, time_slot_id, registered,
                   redrawVars, createVars, bookVars>>
    /\ UNCHANGED <<size, tcArg, pop, genomes, cls, built, next_generation,
                   parents, offspring, err, calls, stream, hist, fit_in, fit_out>>

\* do_time_slots_intersect on two intervals, called in both orders.
IntersectInstants ==
    {BREAKONE_START_TIME - 60, BREAKONE_START_TIME, BREAKONE_START_TIME + 5,
     BREAKONE_END_TIME, BREAKONE_START_TIME + 60}
IntersectCall ==
    /\ pc = "populated"
    /\ \E a, b, c, d \in IntersectInstants :
         /\ timing_in' = <<a, b, c, d>>
         /\ timing_out' = [op |-> "do_time_slots_intersect",
                           result |-> do_time_slots_intersect(a, b, c, d),
                           swapped |-> do_time_slots_intersect(c, d, a, b)]
    /\ UNCHANGED <<pc, day, current_time, time_slot_id, registered,
                   redrawVars, createVars, bookVars>>
    /\ UNCHANGED <<size, tcArg, pop, genomes, cls, built, next_generation,
                   parents, offspring, err, calls, stream, hist, fit_in, fit_out>>

NextTiming ==
    \/ PopulateDay
    \/ PopulateStep
    \/ PopulateReturn
    \/ IsTimingValidCall
    \/ IntersectCall

SpecTiming == InitTiming /\ [][NextTiming]_vars

\* ---------------------------------------------------------- create_schedule
\* What is registered on the genome when create_schedule is called: the
\* courses of its one department (none: no department) and its time slots.
Courses == [weekly_lectures : 0..MaxLectures, weekly_labs : 0..1]
Requests ==
    [courses : UNION {[1..n -> Courses] : n \in 0..MaxCourses},
     time_slots : SUBSET {"MT1", "MT2", "MT18"}]

\* The divisions create_schedule iterates over: not the registered ones but
\* the set {Division("A", 2), Division("B", 2)}, in either order.
DivisionOrders == {<<"A", "B">>, <<"B", "A">>}
num_batches == 2

\* self._choose_random_time_slot(slots): the function is defined without
\* self, so the call through the instance passes two arguments to a
\* function of one parameter: TypeError.
ChooseRandomTimeSlotRaises == TRUE

slots_of_duration(req, length) ==
    {slot \in req.time_slots : TimeSlotTable[slot].duration = length}

InitCreate ==
    /\ pc = "create"
    /\ fit_in = <<>>
    /\ fit_out = 0
    /\ Idle
    /\ TimingIdle
    /\ RedrawIdle
    /\ BookIdle
    /\ request \in Requests
    /\ creating = NoCreating

\* create_schedule: raw_schedule.clear(), the divisions, the first course.
CreateScheduleCall ==
    /\ pc = "create"
    /\ creating.status = "none"
    /\ \E order \in DivisionOrders :
         creating' = [status |-> "running", course |-> 1, divisions |-> order,
                      phase |-> "lectures", raw_schedule |-> <<>>]
    /\ UNCHANGED <<pc, request, timingVars, redrawVars, bookVars>>
    /\ UNCHANGED <<size, tcArg, pop, genomes, cls, built, next_generation,
                   parents, offspring, err, calls, stream, hist, fit_in, fit_out>>

\* Where _schedule_department goes after the lectures or labs of a division.
AfterUnit(c) ==
    IF c.phase = "lectures" /\ request.courses[c.course].weekly_labs > 0
    THEN [c EXCEPT !.phase = "labs"]
    ELSE IF Len(c.divisions) > 1
         THEN [c EXCEPT !.phase = "lectures", !.divisions = Tail(@)]
         ELSE [c EXCEPT !.phase = "lectures", !.course = @ + 1,
                        !.divisions = IF c.divisions[1] = "A"
                                      THEN <<"B", "A">> ELSE <<"A", "B">>]

\* _schedule_course_lectures(course, div, department).
ScheduleCourseLectures ==
    /\ pc = "create"
    /\ creating.status = "running"
    /\ creating.phase = "lectures"
    /\ creating.course <= Len(request.courses)
    /\ LET course == request.courses[creating.course]
       IN IF slots_of_duration(request, TIME_SLOT_DURATION) = {}
          THEN creating' = [creating EXCEPT !.status = "ValueError"]
          ELSE IF course.weekly_lectures >= 1 /\ ChooseRandomTimeSlotRaises
               THEN creating' = [creating EXCEPT !.status = "TypeError"]
               ELSE creating' = AfterUnit(creating)
    /\ UNCHANGED <<pc, request, timingVars, redrawVars, bookVars>>
    /\ UNCHANGED <<size, tcArg, pop, genomes, cls, built, next_generation,
                   parents, offspring, err, calls, stream, hist, fit_in, fit_out>>

\* _schedule_course_labs(course, div, department), called when weekly_labs > 0.
ScheduleCourseLabs ==
    /\ pc = "create"
    /\ creating.status = "running"
    /\ creating.phase = "labs"
    /\ LET course == request.courses[creating.course]
       IN IF slots_of_duration(request, LAB_TIME_SLOT_DURATION) = {}
          THEN creating' = [creating EXCEPT !.status = "ValueError"]
          ELSE IF course.weekly_labs >= 1 /\ num_batches >= 1
                  /\ ChooseRandomTimeSlotRaises
               THEN creating' = [creating EXCEPT !.status = "TypeError"]
               ELSE creating' = AfterUnit(creating)
    /\ UNCHANGED <<pc, request, timingVars, redrawVars, bookVars>>
    /\ UNCHANGED <<size, tcArg, pop, genomes, cls, built, next_generation,
                   parents, offspring, err, calls, stream, hist, fit_in, fit_out>>

\* Every course of every department is done: return self.
CreateScheduleReturn ==
    /\ pc = "create"
    /\ creating.status = "running"
    /\ creating.course > Len(request.courses)
    /\ creating' = [creating EXCEPT !.status = "returned"]
    /\ UNCHANGED <<pc, request, timingVars, redrawVars, bookVars>>
    /\ UNCHANGED <<size, tcArg, pop, genomes, cls, built, next_generation,
                   parents, offspring, err, calls, stream, hist, fit_in, fit_out>>

NextCreate ==
    \/ CreateScheduleCall
    \/ ScheduleCourseLectures
    \/ ScheduleCourseLabs
    \/ CreateScheduleReturn

SpecCreate == InitCreate /\ [][NextCreate]_vars

\* ------------------------------------------------- booking, unit by unit
\* The body of the loops of _schedule_course_lectures and
\* _schedule_course_labs, with _choose_random_time_slot taken as the function
\* it defines (a random element of the list, None for the empty list).
\* Called through self it raises TypeError, which is what SpecCreate follows.
\* The start and end texts of a registered slot, and its day.
slot_start(slot) == strftime(TimeSlotTable[slot].start)
slot_end(slot) == strftime(TimeSlotTable[slot].end)
slot_day(slot) == TimeSlotTable[slot].day

\* The availability windows of the input: the whole day, 09:00-17:00, and a
\* window that begins inside a lecture slot.
Windows ==
    { << <<8, 0>>, <<18, 0>> >>,
      << <<9, 0>>, <<17, 0>> >>,
      << <<10, 30>>, <<17, 0>> >> }

\* do_time_slots_intersect as load_data calls it, on four "HH:MM" texts.
do_time_slots_intersect_str(start1, end1, start2, end2) ==
    str_lt(start1, end2) /\ str_lt(start2, end1)

\* The last loop of load_data: the assigned professor of the course is
\* reserved for every slot that does not intersect the professor's window
\* and is timing-valid.  The lab professor is not reserved for anything.
load_data_reservations(avail) ==
    LET professor == Course.assigned_professor
    IN {<<professor, tslot>> : tslot \in
           {t \in time_slots :
               /\ ~do_time_slots_intersect_str(avail[professor][1], avail[professor][2],
                                               slot_start(t), slot_end(t))
               /\ is_timing_valid(t)}}

\* Professor.is_reserved(time_slot) on the genome g.
is_reserved(g, professor, time_slot) == <<professor, time_slot>> \in g.prof_res

\* The attempt budget of one call of _schedule_course_lectures or _labs.
max_attempts == 20

\* str(batch) and the batch label of a ScheduledClass.
str(n) == IF n = 1 THEN "1" ELSE IF n = 2 THEN "2" ELSE "3"
BatchLabel(batch) == IF batch = None THEN "All" ELSE "Batch " \o batch

InitBook ==
    /\ pc = "book"
    /\ fit_in = <<>>
    /\ fit_out = 0
    /\ Idle
    /\ TimingIdle
    /\ RedrawIdle
    /\ CreateIdle
    /\ available \in [Professors -> Windows]
    /\ optimizer = [NewGenome EXCEPT !.prof_res = load_data_reservations(available)]
    /\ batches = <<>>
    /\ pool = NoPool
    /\ conflict = NoConflictCall

\* The head of _schedule_course_lectures (weekly_lectures units) or of
\* _schedule_course_labs (weekly_labs = 1, one unit per batch): the local
\* list of the slots of the right duration.  Slots of both durations are
\* registered, so neither list is empty.
ScheduleCourseCall ==
    /\ pc = "book"
    /\ pool.done = pool.units
    /\ \/ \E weekly_lectures \in 0..MaxLectures :
             pool' = [kind |-> "lectures",
                      slots |-> {t \in time_slots :
                                    TimeSlotTable[t].duration = TIME_SLOT_DURATION},
                      done |-> 0, units |-> weekly_lectures]
       \/ pool' = [kind |-> "labs",
                   slots |-> {t \in time_slots :
                                 TimeSlotTable[t].duration = LAB_TIME_SLOT_DURATION},
                   done |-> 0, units |-> num_batches]
    /\ UNCHANGED <<pc, optimizer, batches, available, conflict>>
    /\ UNCHANGED <<timingVars, redrawVars, createVars>>
    /\ UNCHANGED <<size, tcArg, pop, genomes, cls, built, next_generation,
                   parents, offspring, err, calls, stream, hist, fit_in, fit_out>>

\* One unit of work for the professor and batch given, from the slot draw
\* on.  The re-pick loop ends either with a slot of the list for which the
\* professor is not reserved, or, when every draw fell on a reserved slot
\* (or the list is empty), with the unit skipped.  Then the slot leaves the
\* list, a room of self.rooms not reserved for the slot is chosen (none: the
\* unit is skipped), and book_and_add_class is called.
Unit(professor, batch) ==
    LET skipped == /\ pool' = [pool EXCEPT !.done = @ + 1]
                   /\ UNCHANGED <<optimizer, batches>>
    IN IF pool.done + 1 > max_attempts
       THEN /\ pool' = [pool EXCEPT !.done = pool.units]
            /\ UNCHANGED <<optimizer, batches>>
       ELSE \/ /\ \/ pool.slots = {}
                  \/ professor = None
                  \/ \E t \in pool.slots : is_reserved(optimizer, professor, t)
               /\ skipped
            \/ \E t \in pool.slots :
                  /\ professor # None
                  /\ ~is_reserved(optimizer, professor, t)
                  /\ pool' = [pool EXCEPT !.done = @ + 1, !.slots = @ \ {t}]
                  /\ IF available_rooms(optimizer, t) = {}
                     THEN UNCHANGED <<optimizer, batches>>
                     ELSE \E room \in available_rooms(optimizer, t) :
                            LET g == book_and_add_class(optimizer, Course, t, room, batch)
                            IN /\ optimizer' = g
                               /\ batches' = IF Len(g.raw) > Len(optimizer.raw)
                                             THEN Append(batches, BatchLabel(batch))
                                             ELSE batches

\* One iteration of the for loop of _schedule_course_lectures.
LectureUnit ==
    /\ pc = "book"
    /\ pool.kind = "lectures"
    /\ pool.done < pool.units
    /\ Unit(Course.assigned_professor, None)
    /\ UNCHANGED <<pc, available, conflict>>
    /\ UNCHANGED <<timingVars, redrawVars, createVars>>
    /\ UNCHANGED <<size, tcArg, pop, genomes, cls, built, next_generation,
                   parents, offspring, err, calls, stream, hist, fit_in, fit_out>>

\* One iteration of the batch loop of _schedule_course_labs.
LabUnit ==
    /\ pc = "book"
    /\ pool.kind = "labs"
    /\ pool.done < pool.units
    /\ Unit(Course.lab_professor, str(pool.done + 1))
    /\ UNCHANGED <<pc, available, conflict>>
    /\ UNCHANGED <<timingVars, redrawVars, createVars>>
    /\ UNCHANGED <<size, tcArg, pop, genomes, cls, built, next_generation,
                   parents, offspring, err, calls, stream, hist, fit_in, fit_out>>

\* is_conflicting: the loop over raw_schedule from class i on.
RECURSIVE is_conflicting_from(_, _, _, _, _)
is_conflicting_from(raw, i, time_slot, room, professor) ==
    IF i > Len(raw) THEN FALSE
    ELSE LET scheduled_time == raw[i].time_slot
         IN IF slot_day(time_slot) # slot_day(scheduled_time)
            THEN is_conflicting_from(raw, i + 1, time_slot, room, professor)
            ELSE IF \/ str_le(slot_end(scheduled_time), slot_start(time_slot))
                    \/ str_ge(slot_start(time_slot), slot_end(scheduled_time))
                 THEN is_conflicting_from(raw, i + 1, time_slot, room, professor)
                 ELSE IF raw[i].room = room \/ raw[i].professor = professor
                      THEN TRUE
                      ELSE is_conflicting_from(raw, i + 1, time_slot, room, professor)

is_conflicting(raw, time_slot, room, professor) ==
    IF time_slot = None \/ room = None \/ professor = None
    THEN TRUE
    ELSE is_conflicting_from(raw, 1, time_slot, room, professor)

\* is_conflicting(time_slot, room, professor) on the genome as it stands.
IsConflictingCall ==
    /\ pc = "book"
    /\ \E time_slot \in time_slots, room \in Rooms \cup LabRooms,
          professor \in Professors :
         conflict' = [time_slot |-> time_slot, room |-> room,
                      professor |-> professor,
                      raw_schedule |-> optimizer.raw,
                      result |-> is_conflicting(optimizer.raw, time_slot,
                                                room, professor)]
    /\ UNCHANGED <<pc, optimizer, batches, available, pool>>
    /\ UNCHANGED <<timingVars, redrawVars, createVars>>
    /\ UNCHANGED <<size, tcArg, pop, genomes, cls, built, next_generation,
                   parents, offspring, err, calls, stream, hist, fit_in, fit_out>>

NextBook ==
    \/ ScheduleCourseCall
    \/ LectureUnit
    \/ LabUnit
    \/ IsConflictingCall

SpecBook == InitBook /\ [][NextBook]_vars

\* ------------------------------------------ book_and_add_class on its own
\* The courses book_and_add_class is given: the course of the input, and a
\* course to which no professor is assigned.
BookCourses == {Course, [assigned_professor |-> None, lab_professor |-> None]}

\* book_and_add_class(div, department, course, time_slot, room, batch).
BookAndAddClassCall ==
    /\ pc = "book"
    /\ Len(optimizer.raw) < MaxClasses
    /\ \E course \in BookCourses, time_slot \in time_slots,
          room \in Rooms \cup LabRooms, batch \in {None, "1"} :
         LET g == book_and_add_class(optimizer, course, time_slot, room, batch)
         IN /\ optimizer' = g
            /\ batches' = IF Len(g.raw) > Len(optimizer.raw)
                          THEN Append(batches, BatchLabel(batch))
                          ELSE batches
    /\ UNCHANGED <<pc, available, pool, conflict>>
    /\ UNCHANGED <<timingVars, redrawVars, createVars>>
    /\ UNCHANGED <<size, tcArg, pop, genomes, cls, built, next_generation,
                   parents, offspring, err, calls, stream, hist, fit_in, fit_out>>

NextBookCalls ==
    \/ ScheduleCourseCall
    \/ LectureUnit
    \/ LabUnit
    \/ BookAndAddClassCall

SpecBookCalls == InitBook /\ [][NextBookCalls]_vars

\* ===================================================================== claims
Returned == hist.phase = "returned"

\* The slots of a schedule that are timing-valid, judged class by class.
AllTimingValid(raw) == \A k \in 1..Len(raw) : is_timing_valid(raw[k].time_slot)

\* C1: when evolve returns, the best fitness (by calculate_fitness) in the
\* returned population is at least the best fitness the population had when
\* evolve was called.
C1_Elitism == Returned => BestCalc(pop) >= hist.best

\* C2: the genome get_best_schedule returned when evolve was called is the
\* first member of the returned population, and its schedule (slot, room and
\* professor of every class) is what it was at the call, during the loop and
\* at the return.
C2_EliteUnchanged ==
    /\ hist.phase \in {"called", "returned"} => RawOf(hist.elite) = hist.eliteRaw
    /\ hist.phase = "called" => next_generation[1] = hist.elite
    /\ Returned => pop[1] = hist.elite

\* C2 witness: evolve returned a population of two or more in which the
\* elite, with classes, was also drawn as parent, went through crossover and
\* mutate and was appended again.
C2_Witness ==
    /\ Returned
    /\ Len(pop) >= 2
    /\ Len(hist.eliteRaw) >= 1
    /\ pop[2] = pop[1]

\* C4: when evolve returns, the population has as many genomes as the one it
\* was called with, and every cached fitness is calculate_fitness of the
\* genome's schedule, none the sentinel -1.0.
C4_SizeAndFitness ==
    Returned =>
        /\ Len(pop) = hist.size
        /\ \A i \in 1..Len(pop) :
               /\ Fitness(pop[i]) = calculate_fitness(RawOf(pop[i]))
               /\ Fitness(pop[i]) # Sentinel

\* C4 witness: evolve returned two or more genomes, one of them with a
\* conflict (fitness 1/2).
C4_Witness ==
    /\ Returned
    /\ Len(pop) >= 2
    /\ \E i \in 1..Len(pop) : 2 * Fitness(pop[i]) = FitUnit

\* A factory whose every invocation yields a timing-invalid genome.
AlwaysInvalid(s) == \A k \in 1..(max_retries + 2) : ~AllTimingValid(StreamAt(s, k))
Created == stream # NoStream /\ err # "TypeError"

\* C5 as stated: with a factory that yields a timing-invalid genome on every
\* invocation, _create_independent_schedule raises the construction-exhausted
\* error after exactly 100 factory invocations.
C5_Original ==
    (Created /\ AlwaysInvalid(stream)) => (err = "ValueError" /\ calls = 100)

\* C5 amended: with such a factory the construction-exhausted error is raised
\* after exactly 101 factory invocations: the first one and 100 retries.
C5_ExhaustedAfter101 ==
    (Created /\ AlwaysInvalid(stream)) => (err = "ValueError" /\ calls = 101)

\* C5 witness: a construction ended by the error on an always-invalid factory.
C5_Witness == Created /\ AlwaysInvalid(stream) /\ pc = "raised"

\* C6: construction raises the construction-exhausted error only if none of
\* the factory invocations it made yielded a timing-valid genome.
C6_RaisesOnlyIfNoneValid ==
    err = "ValueError" => \A k \in 1..calls : ~AllTimingValid(StreamAt(stream, k))

\* C7: every class of every genome that is a member of a Population has a
\* timing-valid slot.
C7_MembersTimingValid == \A i \in 1..Len(pop) : AllTimingValid(RawOf(pop[i]))

\* C7 witness: a population returned by evolve, two or more genomes, every
\* one with classes.
C7_Witness ==
    /\ Returned
    /\ Len(pop) >= 2
    /\ \A i \in 1..Len(pop) : Len(RawOf(pop[i])) >= 1

\* The ScheduledClass objects of a genome, and the genomes whose Room and
\* Professor objects it refers to (through its rooms list and its classes).
ClassesOf(id) == Range(genomes[id].raw)
ResourceOwners(id) == {genomes[id].rooms} \cup {c[1] : c \in ClassesOf(id)}

\* C9: two different members of a population never refer to the same
\* ScheduledClass object nor to the same Room or Professor object.
C9_NoSharedState ==
    \A i, j \in 1..Len(pop) :
        i # j =>
            /\ ClassesOf(pop[i]) \cap ClassesOf(pop[j]) = {}
            /\ ResourceOwners(pop[i]) \cap ResourceOwners(pop[j]) = {}


\* C3: evolve, once called, comes to an end (it returns, or an exception
\* leaves it): the while loop is not stuck dropping every attempt.
C3_EvolveTerminates ==
    (hist.phase = "called") ~> (hist.phase = "returned" \/ pc = "raised")

\* No two classes of a schedule on the same slot in the same room or with
\* the same professor.
NoDoubleBooking(raw) ==
    \A i, j \in 1..Len(raw) :
        (i < j /\ raw[i].time_slot = raw[j].time_slot)
        => (raw[i].room # raw[j].room /\ raw[i].professor # raw[j].professor)

\* C8: in every genome that construction, crossover and mutation produce, no
\* two classes share (room, slot) or (professor, slot).
C8_NoDoubleBooking ==
    \A id \in GenomeIds : genomes[id] # NoGenome => NoDoubleBooking(RawOf(id))

\* The number c of C10: classes on a timing-invalid slot plus unordered
\* pairs of classes that conflict.
ConflictCount(raw) ==
    Cardinality({k \in 1..Len(raw) : ~is_timing_valid(raw[k].time_slot)})
    + Cardinality({p \in (1..Len(raw)) \X (1..Len(raw)) :
                      p[1] < p[2] /\ conflicts_with(raw[p[1]], raw[p[2]])})

\* The conflict count and the fitness of every non-empty schedule.
FitPairs ==
    {<<ConflictCount(x), calculate_fitness(x)>> : x \in FitInputs \ {<<>>}}

\* C10: calculate_fitness is 0 for an empty schedule and else exactly
\* 1 / (1 + c); so it lies in (0, 1], is 1 iff c = 0, is 1/2 iff c = 1, and
\* is smaller for a schedule with more conflicts.
C10_Fitness ==
    pc = "fit_done" =>
        LET c == ConflictCount(fit_in)
        IN IF Len(fit_in) = 0
           THEN fit_out = 0
           ELSE /\ fit_out * (1 + c) = FitUnit
                /\ 0 < fit_out /\ fit_out <= FitUnit
                /\ fit_out = FitUnit <=> c = 0
                /\ 2 * fit_out = FitUnit <=> c = 1
                /\ \A other \in FitPairs : other[1] > c => other[2] < fit_out

\* C10 witness: a fitness computed for a schedule with a timing-invalid
\* class and a conflicting pair.
C10_Witness ==
    /\ pc = "fit_done"
    /\ Len(fit_in) >= 2
    /\ \E k \in 1..Len(fit_in) : ~is_timing_valid(fit_in[k].time_slot)
    /\ \E i, j \in 1..Len(fit_in) : i < j /\ conflicts_with(fit_in[i], fit_in[j])


\* C11: every slot that populate_time_slots has registered ends at its start
\* plus its duration and passes is_timing_valid (inside the operating hours,
\* overlapping none of break one, lunch and break two).
C11_GeneratedSlotsValid ==
    \A s \in registered :
        /\ strptime(s.end) = strptime(s.start) + s.duration
        /\ is_timing_valid_at(s.start, s.end)

\* The windows [b_start, b_end) of the configuration, in minutes.
BreakWindows ==
    {<<BREAKONE_START_TIME, BREAKONE_END_TIME>>,
     <<LUNCH_BREAK_START, LUNCH_BREAK_END>>,
     <<BREAKTWO_START_TIME, BREAKTWO_END_TIME>>}
Minutes(hm) == hm[1] * 60 + hm[2]

\* C12: is_timing_valid(slot) is true if and only if operating_start <=
\* start < operating_end, operating_start < end <= operating_end, and for no
\* break window both start < b_end and b_start < end.
C12_TimingValidIff ==
    timing_out.op = "is_timing_valid" =>
        LET st == Minutes(timing_in[1])
            en == Minutes(timing_in[2])
        IN timing_out.result <=>
              /\ UNIVERSITY_START_TIME <= st /\ st < UNIVERSITY_END_TIME
              /\ UNIVERSITY_START_TIME < en /\ en <= UNIVERSITY_END_TIME
              /\ \A w \in BreakWindows : ~(st < w[2] /\ w[1] < en)

\* C12 witness: is_timing_valid returned true for a slot that ends exactly
\* where a break starts.
C12_Witness ==
    /\ timing_out.op = "is_timing_valid"
    /\ timing_out.result = TRUE
    /\ \E w \in BreakWindows : Minutes(timing_in[2]) = w[1]

\* C13: do_time_slots_intersect gives the same answer with the two intervals
\* exchanged, and false for two non-empty intervals that only touch at an
\* endpoint.
C13_IntersectSymmetric ==
    timing_out.op = "do_time_slots_intersect" =>
        /\ timing_out.result = timing_out.swapped
        /\ (/\ timing_in[1] < timing_in[2]
            /\ timing_in[3] < timing_in[4]
            /\ (timing_in[2] = timing_in[3] \/ timing_in[4] = timing_in[1]))
           => timing_out.result = FALSE

\* C13 witness: a call on two non-empty intervals, the first ending where
\* the second starts.
C13_Witness ==
    /\ timing_out.op = "do_time_slots_intersect"
    /\ timing_in[1] < timing_in[2]
    /\ timing_in[3] < timing_in[4]
    /\ timing_in[2] = timing_in[3]

\* create_schedule has come to an end, by return or by an exception.
CreateEnded == creating.status \in {"returned", "TypeError", "ValueError"}

\* The scenario of C14: one department with one course of L >= 1 weekly
\* lectures and no labs, two timing-valid lecture slots registered.
C14_Scenario ==
    /\ Len(request.courses) = 1
    /\ request.courses[1].weekly_lectures >= 1
    /\ request.courses[1].weekly_labs = 0
    /\ {"MT1", "MT18"} \subseteq request.time_slots

\* C14: in that scenario create_schedule returns and leaves exactly L
\* classes, on distinct timing-valid slots, with calculate_fitness = 1.
C14_ScenarioBooksLectures ==
    (C14_Scenario /\ CreateEnded) =>
        LET raw == creating.raw_schedule
        IN /\ creating.status = "returned"
           /\ Len(raw) = request.courses[1].weekly_lectures
           /\ \A i, j \in 1..Len(raw) : i # j => raw[i].time_slot # raw[j].time_slot
           /\ \A i \in 1..Len(raw) : is_timing_valid(raw[i].time_slot)
           /\ calculate_fitness(raw) = FitUnit

\* C20: create_schedule returns normally for every input: whatever slots
\* are registered, it ends by return, never by an exception.
C20_ExhaustionIsNoError == CreateEnded => creating.status = "returned"

\* The cached fitness of the first i genomes of p, summed.
CachedSum(p, i) ==
    LET f[k \in 0..i] == IF k = 0 THEN 0 ELSE f[k - 1] + Fitness(p[k])
    IN f[i]

\* The genomes of the population whose cached fitness is not 0.
NonZero(p) == {p[i] : i \in {k \in 1..Len(p) : Fitness(p[k]) # 0}}

\* select_parents runs, or has just run, inside the loop of evolve.
Selecting == pc = "loop" /\ Len(next_generation) < Len(pop)

\* C15: with total fitness > 0, roulette selection returns for every draw in
\* [0, total) the first genome in population order whose cumulative fitness
\* exceeds the draw; and when exactly one genome has nonzero fitness, every
\* draw returns that genome and both parents are that genome.
C15_Roulette ==
    LET total == SumFitness(pop, 1)
    IN /\ (Selecting /\ total > 0) =>
             \A pick \in Picks(pop, total) :
                 /\ \E i \in 1..Len(pop) :
                        /\ CachedSum(pop, i) > pick
                        /\ \A j \in 1..(i - 1) : CachedSum(pop, j) <= pick
                        /\ _roulette_selection(pop, pick) = pop[i]
                 /\ Cardinality(NonZero(pop)) = 1 =>
                        _roulette_selection(pop, pick) \in NonZero(pop)
       /\ (pc = "crossover" /\ total > 0 /\ Cardinality(NonZero(pop)) = 1) =>
             \A k \in 1..2 : parents[k] \in NonZero(pop)

\* C15 witness: parents were selected from a population of two genomes, the
\* first with fitness 0 and the second with a positive fitness.
C15_Witness ==
    /\ pc = "crossover"
    /\ Len(pop) = 2
    /\ Fitness(pop[1]) = 0
    /\ Fitness(pop[2]) > 0
    /\ parents = <<pop[2], pop[2]>>

\* crossover, called on its own, built an offspring (it did not return one of
\* the parents).
BuiltOffspring ==
    /\ pc \in {"ops_mutate", "ops_done"}
    /\ offspring \notin {parents[1], parents[2]}

\* C16: crossover of parents with schedules of different lengths raises, so
\* every offspring an actual crossover has built has as many classes as each
\* of its parents.
C16_UnequalLengthsRaise ==
    BuiltOffspring =>
        /\ Len(genomes[parents[1]].raw) = Len(genomes[parents[2]].raw)
        /\ Len(genomes[offspring].raw) = Len(genomes[parents[1]].raw)

\* C17: whenever select_parents runs in the loop of evolve, every genome of
\* the population has its computed fitness cached (none the sentinel -1.0),
\* and no weight that roulette selection accumulates is the sentinel.
C17_SelectionOnEvaluated ==
    Selecting =>
        \A i \in 1..Len(pop) :
            /\ Fitness(pop[i]) # Sentinel
            /\ Fitness(pop[i]) = calculate_fitness(RawOf(pop[i]))
            /\ Weight(pop[i]) # Sentinel

\* The classes of genome id whose slot, room or professor differs between
\* two states.
Changed(id) == {k \in 1..Len(genomes[id].raw) :
                   cls'[genomes[id].raw[k]] # cls[genomes[id].raw[k]]}

\* C19: mutate on a genome with at least one class never raises, and either
\* changes nothing or overwrites the time slot of exactly one class with a
\* timing-valid slot of the genome's slot set; rooms, professors, the other
\* classes and the length of the schedule stay as they are.
C19_MutateFrame ==
    [][(DirectMutate /\ Len(genomes[offspring].raw) >= 1) =>
          /\ err' = None
          /\ genomes' = genomes
          /\ Cardinality(Changed(offspring)) <= 1
          /\ \A k \in Changed(offspring) :
                 LET before == cls[genomes[offspring].raw[k]]
                     after == cls'[genomes[offspring].raw[k]]
                 IN /\ after.room = before.room
                    /\ after.professor = before.professor
                    /\ after.time_slot \in time_slots
                    /\ is_timing_valid(after.time_slot)]_vars

\* At the zipped pair being handled, some class, resp. no class, has a
\* timing-valid slot.
InRedrawLoop == pc = "x_while"
SomeValid == \E c \in {class_a, class_b} : is_timing_valid(cls[c].time_slot)

\* C18: at a zipped pair where at least one of the two classes has a
\* timing-valid slot the re-draw loop ends and a class with a valid slot is
\* appended; at a pair where both slots are timing-invalid the loop never
\* ends.
C18_RedrawLoop ==
    /\ (InRedrawLoop /\ SomeValid) ~> (pc = "x_pair")
    /\ [](pc \in {"x_pair", "x_while", "x_done"} =>
             \A k \in 1..Len(genomes[offspring].raw) :
                 is_timing_valid(cls[genomes[offspring].raw[k]].time_slot))
    /\ []((InRedrawLoop /\ ~SomeValid) => [](InRedrawLoop /\ ~SomeValid))

\* C18 witness: the class of a pair was appended, the other class of that
\* pair having a timing-invalid slot.
C18_Witness ==
    /\ pc = "x_pair"
    /\ position = 2
    /\ Len(genomes[offspring].raw) = 1
    /\ \E k \in 1..2 : ~is_timing_valid(cls[genomes[parents[k]].raw[1]].time_slot)

\* C26: during evolve the genome factory is not invoked by the construction
\* of the new Population, and evolve does not end by the ValueError of
\* _create_independent_schedule.
InEvolve == hist.phase = "called"
C26_EvolveBuildsNoGenome ==
    InEvolve => /\ calls = 0
                /\ ~(pc = "raised" /\ err = "ValueError")

\* What holds of the registered slots at every moment: no two share an id,
\* of a lecture and a lab slot of the same position the lecture slot, made
\* first, has the smaller id, and every slot starts at or after the opening
\* time and ends at or before the closing time.
SlotIdsAndHours ==
    /\ \A s, t \in registered : s.slot_id = t.slot_id => s = t
    /\ \A s, t \in registered :
           (s.day = t.day /\ s.start = t.start /\ s.duration < t.duration)
               => s.slot_id < t.slot_id
    /\ \A s \in registered :
           /\ strptime(s.start) >= UNIVERSITY_START_TIME
           /\ strptime(s.start) < strptime(s.end)
           /\ strptime(s.end) <= UNIVERSITY_END_TIME

\* C23: the slots populate_time_slots registers have pairwise different ids,
\* a slot generated later has a larger id than every slot generated before
\* it, and no slot starts before the opening time or ends after the closing
\* time.
C23_SlotIdsAndHours ==
    /\ []SlotIdsAndHours
    /\ [][\A s \in registered' \ registered :
             \A t \in registered : s.slot_id > t.slot_id]_vars

\* C23 witness: populate_time_slots has returned, the ids are 1 to the
\* number of slots, and the last lecture and lab slot of a day end at the
\* closing time.
C23_Witness ==
    /\ pc = "populated"
    /\ {s.slot_id : s \in registered} = 1..Cardinality(registered)
    /\ \E s, t \in registered :
           /\ s.duration = TIME_SLOT_DURATION
           /\ t.duration = LAB_TIME_SLOT_DURATION
           /\ s.slot_id > t.slot_id
           /\ strptime(s.end) = UNIVERSITY_END_TIME
           /\ strptime(t.end) = UNIVERSITY_END_TIME

\* The classes of the genome being filled.
Booked == {optimizer.raw[k] : k \in 1..Len(optimizer.raw)}

WithinWindow(c) ==
    /\ str_le(available[c.professor][1], slot_start(c.time_slot))
    /\ str_le(slot_end(c.time_slot), available[c.professor][2])

C25_IsConflictingIff ==
    conflict # NoConflictCall =>
        (conflict.result <=>
            \E k \in 1..Len(conflict.raw_schedule) :
                LET c == conflict.raw_schedule[k]
                IN /\ slot_day(c.time_slot) = slot_day(conflict.time_slot)
                   /\ do_time_slots_intersect_str(
                          slot_start(c.time_slot), slot_end(c.time_slot),
                          slot_start(conflict.time_slot), slot_end(conflict.time_slot))
                   /\ (c.room = conflict.room \/ c.professor = conflict.professor))

\* C24: a call of book_and_add_class either reserves the room and the
\* professor of the class for the slot and appends one class, or changes
\* nothing; and a room is reserved for a slot only if a class of the genome
\* has that room in that slot.
C24_AllOrNothing ==
    /\ [][BookAndAddClassCall =>
            \/ optimizer' = optimizer
            \/ /\ Len(optimizer'.raw) = Len(optimizer.raw) + 1
               /\ LET c == optimizer'.raw[Len(optimizer'.raw)]
                  IN /\ <<c.room, c.time_slot>> \in optimizer'.room_res
                     /\ <<c.professor, c.time_slot>> \in optimizer'.prof_res]_vars
    /\ [](\A r \in optimizer.room_res :
             \E c \in Booked : c.room = r[1] /\ c.time_slot = r[2])

====
